---- MODULE Spec2Model ----
(***************************************************************************)
(* Model of microevents.event_bus.EventBus: the per-bus handler registry   *)
(* (on / off / clear / list_receivers) and the dispatch coroutine emit,    *)
(* cut at its lock boundaries and at every handler invocation and await.   *)
(***************************************************************************)
EXTENDS Integers, Sequences, FiniteSets, TLC

\* ---------------------------------------------------------------- bounds
MaxReg == 2          \* registrations made on one bus (cap on _counter)
MaxDispatch == 2     \* emit calls made (tasks / threads), possibly overlapping
MaxLive == 3         \* registrations already made when a drawn registry is the start
MaxThreads == 2      \* threads that call on, each once, possibly at the same time

\* ---------------------------------------------------------------- inputs
Events == {"e1", "e2"}
Funcs == {"f", "g"}
Priorities == {0, 1}
None == "None"
NoEvent == "-"
NoBus == "-"
DefaultBus == "default"
Dispatches == 1..MaxDispatch
Threads == 1..MaxThreads
Free == <<>>
NotCallable == "not callable"
NoArgs == <<>>
NoResult == <<>>
ReturnedNone == <<"None">>
TaskHandle == <<"Task">>
JoinedOk == <<"ok">>

VARIABLES
    buses,      \* the EventBus instances that exist
    handlers,   \* handlers[b]: EventBus._handlers, a dict event -> list of _Handler
    counter,    \* counter[b]: EventBus._counter
    pc,         \* pc[d]: position of emit call d
    dbus,       \* dbus[d]: the bus emit call d runs on (self)
    devent,     \* devent[d]: the event argument of emit call d
    snap,       \* snap[d]: the local list `handlers` of emit call d (after sort)
    idx,        \* idx[d]: position of the for loop of emit call d in snap[d]
    to_remove,  \* to_remove[d]: the local list `to_remove` of emit call d
    calls,      \* calls[d]: the handlers emit call d has called, in call order
    exc,        \* exc[d]: the exception that left emit call d, None if none
    raised,     \* raised[d]: the handlers whose call or await raised in emit call d
    current,    \* current[d]: the local list `current` of emit call d (its cleanup)
    pending,    \* pending[d]: the awaitables emit call d got and has not seen complete
    lock,       \* lock[b]: the owner of EventBus._lock of bus b, Free if none
    tpc,        \* tpc[t]: position of thread t in its call of on
    targ,       \* targ[t]: the arguments of the call of on of thread t
    tmp,        \* tmp[t]: the value of self._counter thread t loaded for += 1
    th,         \* th[t]: the local h of the call of on of thread t
    smode,      \* smode[d]: the branch emit_sync took for emit call d ("-": plain emit)
    sret,       \* sret[d]: what emit_sync gave its caller for emit call d
    joined,     \* joined[d]: what awaiting the task of emit call d gave
    atcall      \* atcall[d]: the list of the event when emit_sync made the task of d

regVars == <<buses, handlers, counter>>
emitVars == <<pc, dbus, devent, snap, idx, to_remove, calls, exc, raised, current, pending>>
lockVars == <<lock, tpc, targ, tmp, th>>
syncVars == <<smode, sret, joined, atcall>>
vars == <<buses, handlers, counter, pc, dbus, devent, snap, idx, to_remove, calls, exc,
         raised, current, pending, lock, tpc, targ, tmp, th, smode, sret, joined,
         atcall>>

\* ---------------------------------------------------------------- _Handler
\* _Handler.__post_init__: sort_index = (-priority, order)
SortIndex(h) == <<0 - h.priority, h.order>>

\* _Handler(priority, order, func, once)
Handler(p, o, f, once) == [priority |-> p, order |-> o, func |-> f, once |-> once]

\* the fields dataclass(order=True) compares, flattened in declaration order:
\* sort_index, priority, order (func and once are compare=False)
CompareKey(h) == SortIndex(h) \o <<h.priority, h.order>>

\* lexicographic < on integer tuples of equal length (Python tuple comparison)
RECURSIVE TupleLt(_, _)
TupleLt(s, t) ==
    IF s = <<>> \/ t = <<>> THEN FALSE
    ELSE IF Head(s) # Head(t) THEN Head(s) < Head(t)
    ELSE TupleLt(Tail(s), Tail(t))

\* a plausible slip: ascending priority (sort_index built from +priority)
HandlerLtAscending(a, b) ==
    TupleLt(<<a.priority, a.order>>, <<b.priority, b.order>>)

\* _Handler.__lt__ generated by dataclass(order=True)
HandlerLt(a, b) == TupleLt(CompareKey(a), CompareKey(b))

\* a plausible slip: matching by callback instead of by record
HandlerEqByFunc(a, b) == a.func = b.func

\* _Handler.__eq__ generated by dataclass: equal compare fields
HandlerEq(a, b) == CompareKey(a) = CompareKey(b)

\* ---------------------------------------------------------------- helpers
\* a plausible slip: _handlers is a class attribute, one dict shared by all buses
GetShared(b, e) ==
    IF e \in DOMAIN handlers[DefaultBus] THEN handlers[DefaultBus][e] ELSE <<>>

\* dict.get(event, [])
Get(b, e) == IF e \in DOMAIN handlers[b] THEN handlers[b][e] ELSE <<>>

\* dict[event] = lst (adds the key when absent)
Put(dict, e, lst) == [k \in DOMAIN dict \cup {e} |-> IF k = e THEN lst ELSE dict[k]]

Range(s) == {s[i] : i \in 1..Len(s)}

\* x in lst: list containment by __eq__
InList(x, lst) == \E i \in 1..Len(lst) : HandlerEq(x, lst[i])

\* list.sort(): stable, ordered by __lt__ (an element goes before the first
\* element it is less than)
RECURSIVE InsertSorted(_, _)
InsertSorted(h, sorted) ==
    IF sorted = <<>> THEN <<h>>
    ELSE IF HandlerLt(h, Head(sorted)) THEN <<h>> \o sorted
    ELSE <<Head(sorted)>> \o InsertSorted(h, Tail(sorted))

RECURSIVE SortHandlers(_)
SortHandlers(lst) ==
    IF lst = <<>> THEN <<>>
    ELSE InsertSorted(lst[Len(lst)], SortHandlers(SubSeq(lst, 1, Len(lst) - 1)))

\* ---------------------------------------------------------------- Init
\* nothing awaited, the lock free, no thread in on, no emit_sync made
InitCalls ==
    /\ pending = [d \in Dispatches |-> <<>>]
    /\ lock = [b \in {DefaultBus} |-> Free]
    /\ tpc = [t \in Threads |-> "idle"]
    /\ targ = [t \in Threads |-> NoArgs]
    /\ tmp = [t \in Threads |-> 0]
    /\ th = [t \in Threads |-> NoArgs]
    /\ smode = [d \in Dispatches |-> "-"]
    /\ sret = [d \in Dispatches |-> NoResult]
    /\ joined = [d \in Dispatches |-> NoResult]
    /\ atcall = [d \in Dispatches |-> <<>>]

Init ==
    /\ buses = {DefaultBus}
    /\ handlers = [b \in {DefaultBus} |-> <<>>]
    /\ counter = [b \in {DefaultBus} |-> 0]
    /\ pc = [d \in Dispatches |-> "idle"]
    /\ dbus = [d \in Dispatches |-> NoBus]
    /\ devent = [d \in Dispatches |-> NoEvent]
    /\ snap = [d \in Dispatches |-> <<>>]
    /\ idx = [d \in Dispatches |-> 0]
    /\ to_remove = [d \in Dispatches |-> <<>>]
    /\ calls = [d \in Dispatches |-> <<>>]
    /\ exc = [d \in Dispatches |-> None]
    /\ raised = [d \in Dispatches |-> <<>>]
    /\ current = [d \in Dispatches |-> <<>>]
    /\ InitCalls

\* ---------------------------------------------------------------- registry
\* the number of records a bus holds, over all its events
RECURSIVE LiveCount(_, _)
LiveCount(b, keys) ==
    IF keys = {} THEN 0
    ELSE LET k == CHOOSE x \in keys : TRUE
         IN  Len(handlers[b][k]) + LiveCount(b, keys \ {k})

\* a plausible slip: the order number is taken from the number of live records
OnCountingLive(b, e, f, p, once) ==
    /\ b \in buses
    /\ counter[b] < MaxReg
    /\ LET n == LiveCount(b, DOMAIN handlers[b]) + 1 IN
        /\ counter' = [counter EXCEPT ![b] = n]
        /\ handlers' = [handlers EXCEPT ![b] =
                Put(handlers[b], e, Append(Get(b, e), Handler(p, n, f, once)))]
    /\ UNCHANGED <<buses, emitVars, lockVars, syncVars>>

\* EventBus.on, handler callable
On(b, e, f, p, once) ==
    /\ b \in buses
    /\ counter[b] < MaxReg
    /\ counter' = [counter EXCEPT ![b] = counter[b] + 1]
    /\ handlers' = [handlers EXCEPT ![b] =
            Put(handlers[b], e, Append(Get(b, e), Handler(p, counter[b] + 1, f, once)))]
    /\ UNCHANGED <<buses, emitVars, lockVars, syncVars>>

\* a plausible slip: list.remove semantics, only the first match goes
RECURSIVE OffKeepFirstOnly(_, _)
OffKeepFirstOnly(lst, f) ==
    IF lst = <<>> THEN <<>>
    ELSE IF Head(lst).func = f THEN Tail(lst)
    ELSE <<Head(lst)>> \o OffKeepFirstOnly(Tail(lst), f)

\* the list comprehension of off: [h for h in lst if h.func is not handler]
OffKeep(lst, f) == LET Keep(h) == h.func # f IN SelectSeq(lst, Keep)

\* a plausible slip: off(event, None) empties the whole dict, as clear does
OffNoneClears(b, e, f) ==
    /\ b \in buses
    /\ LET lst == Get(b, e) IN
        handlers' =
            IF lst = <<>> THEN handlers
            ELSE IF f = None THEN [handlers EXCEPT ![b] = <<>>]
            ELSE [handlers EXCEPT ![b] = Put(handlers[b], e, OffKeep(lst, f))]
    /\ UNCHANGED <<buses, counter, emitVars, lockVars, syncVars>>

\* EventBus.off: the state it leaves in self._handlers
Off(b, e, f) ==
    /\ b \in buses
    /\ LET lst == Get(b, e) IN
        handlers' =
            IF lst = <<>> THEN handlers
            ELSE IF f = None THEN [handlers EXCEPT ![b] = Put(handlers[b], e, <<>>)]
            ELSE [handlers EXCEPT ![b] = Put(handlers[b], e, OffKeep(lst, f))]
    /\ UNCHANGED <<buses, counter, emitVars, lockVars, syncVars>>

\* EventBus.off: the value it returns
OffResult(b, e, f) ==
    LET lst == Get(b, e) IN
        IF lst = <<>> THEN 0
        ELSE IF f = None THEN Len(lst)
        ELSE Len(lst) - Len(OffKeep(lst, f))

\* a plausible slip: clear drops the list of one event only
ClearOneEvent(b) ==
    /\ b \in buses
    /\ handlers' = [handlers EXCEPT ![b] =
            IF DOMAIN handlers[b] = {} THEN <<>>
            ELSE LET e == CHOOSE k \in DOMAIN handlers[b] : TRUE
                 IN  [k \in DOMAIN handlers[b] \ {e} |-> handlers[b][k]]]
    /\ UNCHANGED <<buses, counter, emitVars, lockVars, syncVars>>

\* EventBus.clear
Clear(b) ==
    /\ b \in buses
    /\ handlers' = [handlers EXCEPT ![b] = <<>>]
    /\ UNCHANGED <<buses, counter, emitVars, lockVars, syncVars>>

\* EventBus.list_receivers
ListReceivers(b, e) == [i \in 1..Len(Get(b, e)) |-> Get(b, e)[i].func]

\* ---------------------------------------------------------------- emit
\* with self._lock: handlers = list(self._handlers.get(event, []))
Snapshot(b, e) == Get(b, e)

\* a plausible slip: emit sorts the list of the event in place, under the lock
EmitStartSortsLive(d, b, e) ==
    /\ pc[d] = "idle"
    /\ \A k \in Dispatches : k < d => pc[k] # "idle"
    /\ b \in buses
    /\ pc' = [pc EXCEPT ![d] = "loop"]
    /\ dbus' = [dbus EXCEPT ![d] = b]
    /\ devent' = [devent EXCEPT ![d] = e]
    /\ snap' = [snap EXCEPT ![d] = SortHandlers(Snapshot(b, e))]
    /\ idx' = [idx EXCEPT ![d] = 1]
    /\ handlers' = IF e \in DOMAIN handlers[b]
                   THEN [handlers EXCEPT ![b][e] = SortHandlers(handlers[b][e])]
                   ELSE handlers
    /\ UNCHANGED <<buses, counter, to_remove, calls, exc, raised, current, pending>>
    /\ UNCHANGED <<lockVars, syncVars>>

\* emit up to the for loop: the snapshot under the lock, then the local sort
EmitStart(d, b, e) ==
    /\ pc[d] = "idle"
    /\ \A k \in Dispatches : k < d => pc[k] # "idle"
    /\ b \in buses
    /\ pc' = [pc EXCEPT ![d] = "loop"]
    /\ dbus' = [dbus EXCEPT ![d] = b]
    /\ devent' = [devent EXCEPT ![d] = e]
    /\ snap' = [snap EXCEPT ![d] = SortHandlers(Snapshot(b, e))]
    /\ idx' = [idx EXCEPT ![d] = 1]
    /\ UNCHANGED <<regVars, to_remove, calls, exc, raised, current, pending>>
    /\ UNCHANGED <<lockVars, syncVars>>

\* a plausible slip: the loop walks the live list of the event, not the snapshot
CurrentLive(d) ==
    LET live == SortHandlers(Get(dbus[d], devent[d])) IN
        IF idx[d] <= Len(live) THEN live[idx[d]] ELSE snap[d][idx[d]]

\* the handler the for loop of emit call d is at: for h in handlers
Current(d) == snap[d][idx[d]]

\* the exception a failing handler raises
ErrorOf(h) == <<"raised by", h.func>>

\* the tail of one loop iteration: if h.once: to_remove.append(h); next h
Completed(d) ==
    /\ to_remove' = [to_remove EXCEPT ![d] =
            IF Current(d).once THEN Append(to_remove[d], Current(d)) ELSE to_remove[d]]
    /\ idx' = [idx EXCEPT ![d] = idx[d] + 1]
    /\ pc' = [pc EXCEPT ![d] = "loop"]
    /\ exc' = exc

\* a plausible slip: the failure is swallowed and the loop goes on
Swallowed(d) == Completed(d)

\* an exception leaves h.call or the await: it propagates out of emit as it is
Propagated(d) ==
    /\ pc' = [pc EXCEPT ![d] = "error"]
    /\ exc' = [exc EXCEPT ![d] = ErrorOf(Current(d))]
    /\ UNCHANGED <<to_remove, idx>>

\* a plausible slip: a once handler is dropped from the list right after its call
CallReturnRemoving(d) ==
    /\ pc[d] = "loop" /\ idx[d] <= Len(snap[d])
    /\ calls' = [calls EXCEPT ![d] = Append(calls[d], Current(d))]
    /\ Completed(d)
    /\ handlers' = IF Current(d).once
                   THEN LET Keep(x) == ~ HandlerEq(x, Current(d)) IN
                        [handlers EXCEPT ![dbus[d]] =
                            Put(handlers[dbus[d]], devent[d],
                                SelectSeq(Get(dbus[d], devent[d]), Keep))]
                   ELSE handlers
    /\ UNCHANGED <<buses, counter, dbus, devent, snap, raised, current, pending>>
    /\ UNCHANGED <<lockVars, syncVars>>

\* result = h.call(...): a synchronous handler that returns
CallReturn(d) ==
    /\ pc[d] = "loop" /\ idx[d] <= Len(snap[d])
    /\ calls' = [calls EXCEPT ![d] = Append(calls[d], Current(d))]
    /\ Completed(d)
    /\ UNCHANGED <<regVars, dbus, devent, snap, raised, current, pending>>
    /\ UNCHANGED <<lockVars, syncVars>>

\* result = h.call(...): a synchronous handler that raises
CallRaise(d) ==
    /\ pc[d] = "loop" /\ idx[d] <= Len(snap[d])
    /\ calls' = [calls EXCEPT ![d] = Append(calls[d], Current(d))]
    /\ raised' = [raised EXCEPT ![d] = Append(raised[d], Current(d))]
    /\ Propagated(d)
    /\ UNCHANGED <<regVars, dbus, devent, snap, current, pending>>
    /\ UNCHANGED <<lockVars, syncVars>>

\* a plausible slip: the awaitable is left to run and the loop goes on at once
CallAwaitDetached(d) ==
    /\ pc[d] = "loop" /\ idx[d] <= Len(snap[d])
    /\ calls' = [calls EXCEPT ![d] = Append(calls[d], Current(d))]
    /\ pending' = [pending EXCEPT ![d] = Append(pending[d], Current(d))]
    /\ Completed(d)
    /\ UNCHANGED <<regVars, dbus, devent, snap, raised, current>>
    /\ UNCHANGED <<lockVars, syncVars>>

\* result = h.call(...) is awaitable: emit suspends in `await result`
CallAwait(d) ==
    /\ pc[d] = "loop" /\ idx[d] <= Len(snap[d])
    /\ calls' = [calls EXCEPT ![d] = Append(calls[d], Current(d))]
    /\ pc' = [pc EXCEPT ![d] = "await"]
    /\ pending' = [pending EXCEPT ![d] = Append(pending[d], Current(d))]
    /\ UNCHANGED <<regVars, dbus, devent, snap, idx, to_remove, exc, raised, current>>
    /\ UNCHANGED <<lockVars, syncVars>>

\* `await result` resumes with the handler's completion
AwaitReturn(d) ==
    /\ pc[d] = "await"
    /\ Completed(d)
    /\ pending' = [pending EXCEPT ![d] = SubSeq(pending[d], 1, Len(pending[d]) - 1)]
    /\ UNCHANGED <<regVars, dbus, devent, snap, calls, raised, current>>
    /\ UNCHANGED <<lockVars, syncVars>>

\* `await result` resumes with the handler's exception
AwaitRaise(d) ==
    /\ pc[d] = "await"
    /\ raised' = [raised EXCEPT ![d] = Append(raised[d], Current(d))]
    /\ Propagated(d)
    /\ pending' = [pending EXCEPT ![d] = SubSeq(pending[d], 1, Len(pending[d]) - 1)]
    /\ UNCHANGED <<regVars, dbus, devent, snap, calls, current>>
    /\ UNCHANGED <<lockVars, syncVars>>

\* a plausible slip: the filter is inverted and keeps the once handlers only
RemoveOnceInverted(lst, removing) ==
    LET Keep(x) == InList(x, removing) IN SelectSeq(lst, Keep)

\* [x for x in current if x not in to_remove]
RemoveOnce(lst, removing) ==
    LET Keep(x) == ~ InList(x, removing) IN SelectSeq(lst, Keep)

\* a plausible slip: the cleanup is not guarded by `if to_remove`
CleanupAlways(d) ==
    /\ pc[d] = "loop" /\ idx[d] > Len(snap[d])
    /\ current' = [current EXCEPT ![d] = Get(dbus[d], devent[d])]
    /\ handlers' = [handlers EXCEPT ![dbus[d]] =
            Put(handlers[dbus[d]], devent[d],
                RemoveOnce(Get(dbus[d], devent[d]), to_remove[d]))]
    /\ pc' = [pc EXCEPT ![d] = "done"]
    /\ UNCHANGED <<buses, counter, dbus, devent, snap, idx, to_remove, calls, exc, raised>>
    /\ UNCHANGED <<pending, lockVars, syncVars>>

\* a plausible slip: the cleanup writes back the snapshot less the once handlers
CleanupFromSnapshot(d) ==
    /\ pc[d] = "loop" /\ idx[d] > Len(snap[d])
    /\ IF to_remove[d] # <<>> THEN
            /\ current' = [current EXCEPT ![d] = Get(dbus[d], devent[d])]
            /\ handlers' = [handlers EXCEPT ![dbus[d]] =
                    Put(handlers[dbus[d]], devent[d],
                        RemoveOnce(snap[d], to_remove[d]))]
       ELSE UNCHANGED <<current, handlers>>
    /\ pc' = [pc EXCEPT ![d] = "done"]
    /\ UNCHANGED <<buses, counter, dbus, devent, snap, idx, to_remove, calls, exc, raised>>
    /\ UNCHANGED <<pending, lockVars, syncVars>>

\* a plausible slip: the cleanup waits until no other emit call is in its loop
CleanupWaitsForOthers(d) ==
    /\ pc[d] = "loop" /\ idx[d] > Len(snap[d])
    /\ \A k \in Dispatches \ {d} : pc[k] \in {"idle", "done", "error"}
    /\ IF to_remove[d] # <<>> THEN
            /\ current' = [current EXCEPT ![d] = Get(dbus[d], devent[d])]
            /\ handlers' = [handlers EXCEPT ![dbus[d]] =
                    Put(handlers[dbus[d]], devent[d],
                        RemoveOnce(Get(dbus[d], devent[d]), to_remove[d]))]
       ELSE UNCHANGED <<current, handlers>>
    /\ pc' = [pc EXCEPT ![d] = "done"]
    /\ UNCHANGED <<buses, counter, dbus, devent, snap, idx, to_remove, calls, exc, raised>>
    /\ UNCHANGED <<pending, lockVars, syncVars>>

\* the end of emit: if to_remove: with self._lock: drop the once handlers
Cleanup(d) ==
    /\ pc[d] = "loop" /\ idx[d] > Len(snap[d])
    /\ IF to_remove[d] # <<>> THEN
            /\ current' = [current EXCEPT ![d] = Get(dbus[d], devent[d])]
            /\ handlers' = [handlers EXCEPT ![dbus[d]] =
                    Put(handlers[dbus[d]], devent[d],
                        RemoveOnce(Get(dbus[d], devent[d]), to_remove[d]))]
       ELSE UNCHANGED <<current, handlers>>
    /\ pc' = [pc EXCEPT ![d] = "done"]
    /\ UNCHANGED <<buses, counter, dbus, devent, snap, idx, to_remove, calls, exc, raised>>
    /\ UNCHANGED <<pending, lockVars, syncVars>>

\* ---------------------------------------------------------------- specification
Next ==
    \/ \E b \in buses, e \in Events, f \in Funcs, p \in Priorities, once \in BOOLEAN :
            On(b, e, f, p, once)
    \/ \E b \in buses, e \in Events, f \in Funcs \cup {None} : Off(b, e, f)
    \/ \E b \in buses : Clear(b)
    \/ \E d \in Dispatches, b \in buses, e \in Events : EmitStart(d, b, e)
    \/ \E d \in Dispatches : CallReturn(d)
    \/ \E d \in Dispatches : CallRaise(d)
    \/ \E d \in Dispatches : CallAwait(d)
    \/ \E d \in Dispatches : AwaitReturn(d)
    \/ \E d \in Dispatches : AwaitRaise(d)
    \/ \E d \in Dispatches : Cleanup(d)

Spec == Init /\ [][Next]_vars

\* ---------------------------------------------------------------- drawn registries
\* A bus after n calls of on and any calls of off, clear and emit: the records
\* still held keep their order numbers 1..n, each in the list of its event;
\* a key with an empty list is left by a removal.
Absent == [event |-> NoEvent]
Registrations ==
    [event : Events, func : Funcs, priority : Priorities, once : BOOLEAN]

RECURSIVE ListOf(_, _, _)
ListOf(a, e, n) ==
    IF n = 0 THEN <<>>
    ELSE IF a[n].event = e
        THEN Append(ListOf(a, e, n - 1), Handler(a[n].priority, n, a[n].func, a[n].once))
        ELSE ListOf(a, e, n - 1)

InitRegistry ==
    /\ buses = {DefaultBus}
    /\ \E n \in 0..MaxLive :
        \E a \in [1..n -> Registrations \cup {Absent}] :
            \E keys \in SUBSET Events :
                LET used == {a[i].event : i \in 1..n} \ {NoEvent}
                    gone == {i \in 1..n : a[i] = Absent}
                IN  /\ used \subseteq keys
                    /\ Cardinality(keys \ used) <= Cardinality(gone)
                    /\ counter = [b \in {DefaultBus} |-> n]
                    /\ handlers = [b \in {DefaultBus} |-> [e \in keys |-> ListOf(a, e, n)]]
    /\ pc = [d \in Dispatches |-> "idle"]
    /\ dbus = [d \in Dispatches |-> NoBus]
    /\ devent = [d \in Dispatches |-> NoEvent]
    /\ snap = [d \in Dispatches |-> <<>>]
    /\ idx = [d \in Dispatches |-> 0]
    /\ to_remove = [d \in Dispatches |-> <<>>]
    /\ calls = [d \in Dispatches |-> <<>>]
    /\ exc = [d \in Dispatches |-> None]
    /\ raised = [d \in Dispatches |-> <<>>]
    /\ current = [d \in Dispatches |-> <<>>]
    /\ InitCalls

\* the registry calls alone, from any registry
NextRegistry ==
    \/ \E b \in buses, e \in Events, f \in Funcs, p \in Priorities, once \in BOOLEAN :
            On(b, e, f, p, once)
    \/ \E b \in buses, e \in Events, f \in Funcs \cup {None} : Off(b, e, f)
    \/ \E b \in buses : Clear(b)

SpecRegistry == InitRegistry /\ [][NextRegistry]_vars

\* one emit call at a time, from any registry, nothing else running
NextSolo ==
    \/ \E b \in buses, e \in Events : EmitStart(1, b, e)
    \/ CallReturn(1)
    \/ CallRaise(1)
    \/ CallAwait(1)
    \/ AwaitReturn(1)
    \/ AwaitRaise(1)
    \/ Cleanup(1)

SpecSolo == InitRegistry /\ [][NextSolo]_vars

\* ---------------------------------------------------------------- properties
\* self._handlers.get(event, []) in the next state
GetNext(b, e) == IF e \in DOMAIN handlers'[b] THEN handlers'[b][e] ELSE <<>>

\* the order numbers of the records a list holds
Orders(lst) == {lst[i].order : i \in 1..Len(lst)}

\* a goes before b in dispatch order
Before(a, b) ==
    \/ a.priority > b.priority
    \/ a.priority = b.priority /\ a.order < b.order

\* the step in which emit call d takes its snapshot
IsSnapshot(d) == pc[d] = "idle" /\ pc'[d] # "idle"

\* the step in which emit call d ends without a failure (its cleanup)
IsCleanup(d) == pc[d] = "loop" /\ pc'[d] = "done"

\* C1: an emit call calls the handlers of its snapshot in descending priority
\* and, among equal priorities, in ascending registration order; when it is
\* done it has called every handler of the snapshot exactly once.
C1_DispatchOrder ==
    \A d \in Dispatches :
        /\ \A i, j \in 1..Len(calls[d]) : i < j => Before(calls[d][i], calls[d][j])
        /\ pc[d] = "done" =>
                /\ Len(calls[d]) = Len(snap[d])
                /\ Range(calls[d]) = Range(snap[d])

\* C1: three handlers were called, the second registered before the first
\* (priority decides), the last two of equal priority (registration order decides)
C1_Witness ==
    \E d \in Dispatches :
        /\ pc[d] = "done"
        /\ Len(calls[d]) = 3
        /\ calls[d][1].order > calls[d][2].order
        /\ calls[d][2].priority = calls[d][3].priority

\* C2: the cleanup of an emit call that ended without a failure leaves no once
\* record of its snapshot in the list of the event and keeps every record that
\* is not once; a removed record never comes back, and an emit call only calls
\* records that were in the list when it took its snapshot, so no emit call
\* started later calls a removed once record.
C2_OnceRemovedAfterDispatch ==
    [][ /\ \A d \in Dispatches :
            /\ IsCleanup(d) =>
                    /\ \A h \in Range(snap[d]) :
                            h.once => h.order \notin Orders(GetNext(dbus[d], devent[d]))
                    /\ \A x \in Range(Get(dbus[d], devent[d])) :
                            ~ x.once => x \in Range(GetNext(dbus[d], devent[d]))
            /\ IsSnapshot(d) =>
                    Range(snap'[d]) \subseteq Range(Get(dbus'[d], devent'[d]))
            /\ Range(calls'[d]) \subseteq Range(snap'[d])
        /\ \A b \in buses : \A e \in Events : \A o \in Orders(GetNext(b, e)) :
                o \in Orders(Get(b, e)) \/ (o = counter'[b] /\ o > counter[b])
      ]_vars

\* C2: a first emit call ended and removed a once record of its snapshot; a
\* second emit call of the same event, which did not have it in its snapshot,
\* called a record of the first snapshot that is not once and is still registered
C2_Witness ==
    /\ pc[1] = "done" /\ pc[2] = "done" /\ devent[1] = devent[2]
    /\ \E h \in Range(snap[1]) : h.once /\ h \notin Range(snap[2])
    /\ \E x \in Range(snap[1]) :
            /\ ~ x.once
            /\ x \in Range(calls[2])
            /\ x \in Range(Get(dbus[1], devent[1]))

\* the calls made by all emit calls: <<d, i>> is the i-th call of emit call d
AllCalls == UNION {{<<d, i>> : i \in 1..Len(calls[d])} : d \in Dispatches}

\* C3: a record registered with once=True is called at most once over the life
\* of the bus, whatever emit calls overlap.
C3_OnceCalledAtMostOnce ==
    \A b \in buses : \A o \in 1..counter[b] :
        Cardinality({c \in AllCalls :
            /\ dbus[c[1]] = b
            /\ calls[c[1]][c[2]].order = o
            /\ calls[c[1]][c[2]].once}) <= 1

\* C4: once an emit call has failed in a once handler, that record is no longer
\* in the list of the event.
C4_RaisingOnceRemoved ==
    \A d \in Dispatches :
        (pc[d] = "error" /\ snap[d][idx[d]].once) =>
            snap[d][idx[d]].order \notin Orders(Get(dbus[d], devent[d]))

\* C5: once an emit call has failed at position i, no once record at a position
\* before i is in the list of the event any more.
C5_OnceBeforeFailureRemoved ==
    \A d \in Dispatches :
        pc[d] = "error" =>
            \A k \in 1..(idx[d] - 1) :
                snap[d][k].once => snap[d][k].order \notin Orders(Get(dbus[d], devent[d]))

\* C6: when a handler raises, the emit call ends with that handler's exception,
\* the failing handler is the last one it called, the handlers before it in
\* dispatch order were called and nothing they did is undone, and no handler
\* after it is ever called.
C6_FailFast ==
    \A d \in Dispatches :
        /\ pc[d] = "error" <=> raised[d] # <<>>
        /\ raised[d] # <<>> =>
                /\ Len(raised[d]) = 1
                /\ exc[d] = ErrorOf(raised[d][1])
                /\ calls[d] = SubSeq(snap[d], 1, Len(calls[d]))
                /\ calls[d][Len(calls[d])] = raised[d][1]
        /\ raised[d] = <<>> => exc[d] = None

\* C6: the second of three handlers raised: the first was called, the third not
C6_Witness ==
    \E d \in Dispatches :
        /\ pc[d] = "error"
        /\ Len(snap[d]) = 3
        /\ Len(calls[d]) = 2
        /\ raised[d] = <<snap[d][2]>>

\* the place of record x in lst
Pos(lst, x) == CHOOSE i \in 1..Len(lst) : lst[i] = x

\* C7: an emit call delivers to exactly the records the list of the event held
\* when the snapshot was taken: the snapshot holds those records and never
\* changes afterwards, whatever on, off and clear do to the list; the calls made
\* are always the first handlers of the snapshot, and all of them once the call
\* is done.
C7_SnapshotDelivery ==
    [][ \A d \in Dispatches :
            /\ IsSnapshot(d) =>
                    /\ Range(snap'[d]) = Range(Get(dbus'[d], devent'[d]))
                    /\ Len(snap'[d]) = Len(Get(dbus'[d], devent'[d]))
            /\ pc[d] # "idle" => snap'[d] = snap[d]
            /\ calls'[d] = SubSeq(snap'[d], 1, Len(calls'[d]))
            /\ pc'[d] = "done" => Len(calls'[d]) = Len(snap'[d])
      ]_vars

\* C7: an emit call has called every handler of its snapshot; its cleanup found
\* in the list a record registered after the snapshot, which it did not call,
\* and did not find a record of the snapshot, removed meanwhile, which it called
C7_Witness ==
    \E d \in Dispatches :
        /\ pc[d] = "done"
        /\ \E y \in Range(current[d]) : y.order \notin Orders(snap[d])
        /\ \E x \in Range(calls[d]) : x.order \notin Orders(current[d])
        /\ \A y \in Range(current[d]) : y.order \notin Orders(calls[d])

\* C8: the cleanup of an emit call removes no record that was not in its
\* snapshot: a record registered after the snapshot stays, also when it has the
\* callback of a once record the cleanup removes.
C8_CleanupByRecord ==
    [][ \A d \in Dispatches :
            IsCleanup(d) =>
                \A x \in Range(Get(dbus[d], devent[d])) :
                    x.order \notin Orders(snap[d]) =>
                        x \in Range(GetNext(dbus[d], devent[d]))
      ]_vars

\* C8: the cleanup removed a once record and found in the list a record with the
\* same callback registered after the snapshot, which is still registered
C8_Witness ==
    \E d \in Dispatches :
        /\ pc[d] = "done"
        /\ \E h \in Range(to_remove[d]) : \E x \in Range(current[d]) :
                /\ x.func = h.func
                /\ x.order \notin Orders(snap[d])
                /\ h.order \notin Orders(Get(dbus[d], devent[d]))
                /\ x \in Range(Get(dbus[d], devent[d]))

\* C9: off(E, H) returns the number of records of E whose callback is H (0 when
\* there is none or E is unknown), removes exactly those records, keeps the
\* other records of E in their relative order and leaves the other events and
\* the counter as they were.
C9_OffHandler ==
    /\ [](\A b \in buses : \A e \in Events : \A f \in Funcs :
            OffResult(b, e, f) =
                Cardinality({i \in 1..Len(Get(b, e)) : Get(b, e)[i].func = f}))
    /\ [][ \A b \in buses : \A e \in Events : \A f \in Funcs :
            Off(b, e, f) =>
                /\ Range(GetNext(b, e)) = {x \in Range(Get(b, e)) : x.func # f}
                /\ Len(GetNext(b, e)) = Cardinality(Range(GetNext(b, e)))
                /\ \A i, j \in 1..Len(GetNext(b, e)) :
                        i < j => Pos(Get(b, e), GetNext(b, e)[i]) < Pos(Get(b, e), GetNext(b, e)[j])
                /\ \A e2 \in Events \ {e} :
                        /\ GetNext(b, e2) = Get(b, e2)
                        /\ e2 \in DOMAIN handlers'[b] <=> e2 \in DOMAIN handlers[b]
                /\ counter' = counter
          ]_vars

\* C9: three records were registered; the second one is gone and the list of an
\* event holds the first and the third, of one callback, in that order
C9_Witness ==
    \E b \in buses : \E e \in Events :
        /\ counter[b] = 3
        /\ Len(Get(b, e)) = 2
        /\ Get(b, e)[1].order = 1 /\ Get(b, e)[2].order = 3
        /\ Get(b, e)[1].func = Get(b, e)[2].func
        /\ \A e2 \in Events \ {e} : Get(b, e2) = <<>>

\* C10: off(E, None) returns the number of records of E (0 when E is unknown or
\* empty) and leaves the list of E empty and every other event as it was; an
\* emit call that takes its snapshot of an empty list calls no handler.
C10_OffAll ==
    /\ [](\A b \in buses : \A e \in Events : OffResult(b, e, None) = Len(Get(b, e)))
    /\ [](\A d \in Dispatches : snap[d] = <<>> => calls[d] = <<>>)
    /\ [][ /\ \A b \in buses : \A e \in Events :
                Off(b, e, None) =>
                    /\ GetNext(b, e) = <<>>
                    /\ \A e2 \in Events \ {e} :
                            /\ GetNext(b, e2) = Get(b, e2)
                            /\ e2 \in DOMAIN handlers'[b] <=> e2 \in DOMAIN handlers[b]
                    /\ counter' = counter
            /\ \A d \in Dispatches :
                (IsSnapshot(d) /\ Get(dbus'[d], devent'[d]) = <<>>) => snap'[d] = <<>>
          ]_vars

\* C10: a first emit call had two records of an event in its snapshot; the list
\* of the event was emptied without any cleanup (its key is still there), another
\* event still holds a record, and a second emit call of the event is done
\* without having called a handler
C10_Witness ==
    /\ Len(snap[1]) = 2
    /\ \A d \in Dispatches : current[d] = <<>>
    /\ devent[1] \in DOMAIN handlers[dbus[1]]
    /\ Get(dbus[1], devent[1]) = <<>>
    /\ pc[2] = "done" /\ dbus[2] = dbus[1] /\ devent[2] = devent[1]
    /\ snap[2] = <<>> /\ calls[2] = <<>>

\* C11: clear leaves list_receivers empty for every event of the bus; a list
\* that is empty gets a record again only by a call of on, which appends the
\* record with the next order number; an emit call that takes its snapshot of
\* an empty list has an empty snapshot and calls only handlers of its snapshot,
\* so it calls none.
C11_ClearRemovesAll ==
    /\ [][ \A b \in buses : Clear(b) =>
                \A e \in Events : ListReceivers(b, e)' = <<>> ]_vars
    /\ [][ \A b \in buses : \A e \in Events :
                (Get(b, e) = <<>> /\ GetNext(b, e) # <<>>) =>
                    /\ counter'[b] = counter[b] + 1
                    /\ Orders(GetNext(b, e)) = {counter'[b]} ]_vars
    /\ [][ \A d \in Dispatches :
                (IsSnapshot(d) /\ Get(dbus'[d], devent'[d]) = <<>>) => snap'[d] = <<>> ]_vars
    /\ [](\A d \in Dispatches : Range(calls[d]) \subseteq Range(snap[d]))

\* C11: a first emit call had both registered records in its snapshot; the dict
\* of the bus holds no key any more, as clear leaves it; a second emit call of
\* the same event, started after the first, is done and has called no handler
C11_Witness ==
    /\ Len(snap[1]) = 2
    /\ counter[dbus[1]] = 2
    /\ DOMAIN handlers[dbus[1]] = {}
    /\ pc[2] = "done" /\ dbus[2] = dbus[1] /\ devent[2] = devent[1]
    /\ snap[2] = <<>> /\ calls[2] = <<>>
    /\ \A d \in Dispatches : current[d] = <<>>

\* ---------------------------------------------------------------- several buses
OtherBus == "other"

\* EventBus(): a new instance with its own lock, empty dict and counter 0
NewBus(b) ==
    /\ b \notin buses
    /\ buses' = buses \cup {b}
    /\ handlers' = [x \in buses \cup {b} |-> IF x = b THEN <<>> ELSE handlers[x]]
    /\ counter' = [x \in buses \cup {b} |-> IF x = b THEN 0 ELSE counter[x]]
    /\ lock' = [x \in buses \cup {b} |-> IF x = b THEN Free ELSE lock[x]]
    /\ UNCHANGED <<emitVars, tpc, targ, tmp, th, syncVars>>

\* the calls on the default bus and on a second bus, all for one event name,
\* with one emit call
NextBuses ==
    \/ NewBus(OtherBus)
    \/ \E b \in buses, f \in Funcs, once \in BOOLEAN : On(b, "e1", f, 0, once)
    \/ \E b \in buses, f \in Funcs \cup {None} : Off(b, "e1", f)
    \/ \E b \in buses : Clear(b)
    \/ \E b \in buses : EmitStart(1, b, "e1")
    \/ CallReturn(1)
    \/ CallRaise(1)
    \/ CallAwait(1)
    \/ AwaitReturn(1)
    \/ AwaitRaise(1)
    \/ Cleanup(1)

SpecBuses == Init /\ [][NextBuses]_vars

\* the step is a call on bus b that may change its registry
CallOn(b) ==
    \/ \E e \in Events, f \in Funcs, p \in Priorities, once \in BOOLEAN : On(b, e, f, p, once)
    \/ \E e \in Events, f \in Funcs \cup {None} : Off(b, e, f)
    \/ Clear(b)
    \/ \E d \in Dispatches : dbus[d] = b /\ Cleanup(d)

\* C12: a step changes the dict or the counter of a bus only when it is a call
\* of on, off, clear or the cleanup of an emit call on that very bus, and it
\* changes one bus at most; a new bus starts empty with counter 0 whatever the
\* other buses hold; the snapshot of an emit call is the list its own bus holds
\* for the event, and an emit call only calls handlers of its snapshot.
C12_BusIsolation ==
    /\ [][ /\ \A b \in buses :
                (handlers'[b] # handlers[b] \/ counter'[b] # counter[b]) =>
                    /\ CallOn(b)
                    /\ \A a \in buses \ {b} :
                            handlers'[a] = handlers[a] /\ counter'[a] = counter[a]
           /\ \A b \in buses' \ buses : handlers'[b] = <<>> /\ counter'[b] = 0
           /\ \A d \in Dispatches :
                IsSnapshot(d) =>
                    /\ Range(snap'[d]) = Range(GetNext(dbus'[d], devent'[d]))
                    /\ handlers'[dbus'[d]] = handlers[dbus'[d]]
         ]_vars
    /\ [](\A d \in Dispatches : Range(calls[d]) \subseteq Range(snap[d]))

\* C12: the default bus holds callback f only, two registrations made; the
\* second bus holds callback g only, with order number 1; an emit call of the
\* same event name on the second bus is done and has called g and never f
C12_Witness ==
    /\ buses = {DefaultBus, OtherBus}
    /\ counter[DefaultBus] = 2 /\ counter[OtherBus] = 1
    /\ Get(DefaultBus, "e1") # <<>>
    /\ \A h \in Range(Get(DefaultBus, "e1")) : h.func = "f"
    /\ \E d \in Dispatches :
        /\ pc[d] = "done" /\ dbus[d] = OtherBus /\ devent[d] = "e1"
        /\ Len(calls[d]) = 1
        /\ calls[d][1].func = "g" /\ calls[d][1].order = 1

\* the places of the records of bus b: <<e, i>> is the i-th record of event e
Places(b) == UNION {{<<e, i>> : i \in 1..Len(handlers[b][e])} : e \in DOMAIN handlers[b]}

\* the order numbers of the records bus b holds in the next state
OrdersNext(b) == UNION {Orders(handlers'[b][e]) : e \in DOMAIN handlers'[b]}

\* C13: no two records of a bus, over all its events, have the same order number,
\* and every order number is at most the counter; the counter never decreases;
\* a record that appears in the registry has the new value of the counter,
\* which is the old one plus one and so greater than every number given
\* before, also after off, clear or the cleanup of an emit call removed records.
C13_SequenceUnique ==
    /\ [](\A b \in buses :
            /\ \A p, q \in Places(b) :
                    p # q => handlers[b][p[1]][p[2]].order # handlers[b][q[1]][q[2]].order
            /\ \A p \in Places(b) : handlers[b][p[1]][p[2]].order \in 1..counter[b])
    /\ [][ \A b \in buses :
            /\ counter'[b] >= counter[b]
            /\ \A o \in OrdersNext(b) \ {handlers[b][p[1]][p[2]].order : p \in Places(b)} :
                    o = counter'[b] /\ counter'[b] = counter[b] + 1
            /\ counter'[b] # counter[b] => counter'[b] \in OrdersNext(b)
         ]_vars

\* C13: the cleanup of an emit call found one once record, with order number 1,
\* and removed it; the record registered for the event since has order number 2
C13_Witness ==
    \E d \in Dispatches :
        /\ pc[d] = "done"
        /\ Len(current[d]) = 1 /\ current[d][1].order = 1 /\ current[d][1].once
        /\ counter[dbus[d]] = 2
        /\ Orders(Get(dbus[d], devent[d])) = {2}

\* C16: an emit call has at most one awaitable it has not seen complete, the one
\* of the handler its loop is at, and it has one exactly while it is suspended;
\* it calls a handler only when it has none, so a handler starts only after
\* every handler called before it has completed; the handlers are called in the
\* order of the snapshot, synchronous or not.
C16_OneHandlerAtATime ==
    /\ [](\A d \in Dispatches :
            /\ Len(pending[d]) <= 1
            /\ pc[d] = "await" <=> pending[d] # <<>>
            /\ pending[d] # <<>> =>
                    (pending[d] = <<snap[d][idx[d]]>> /\ Len(calls[d]) = idx[d])
            /\ pc[d] = "loop" => Len(calls[d]) = idx[d] - 1
            /\ calls[d] = SubSeq(snap[d], 1, Len(calls[d])))
    /\ [][ \A d \in Dispatches :
            Len(calls'[d]) > Len(calls[d]) => pending[d] = <<>> ]_vars

\* C16: the first handler of two, of the higher priority, has been called and is
\* suspended in its await; the second handler has not been called
C16_Witness ==
    \E d \in Dispatches :
        /\ pc[d] = "await"
        /\ Len(snap[d]) = 2
        /\ snap[d][1].priority > snap[d][2].priority
        /\ calls[d] = <<snap[d][1]>>
        /\ pending[d] = <<snap[d][1]>>

\* ---------------------------------------------------------------- on, by threads
\* a plausible slip: the callable check is missing
CallableAnything(f) == TRUE

\* callable(handler)
Callable(f) == f \in Funcs

\* on up to the lock: if not callable(handler): raise TypeError
OnCall(t, b, e, f, p, once) ==
    /\ tpc[t] = "idle"
    /\ b \in buses
    /\ targ' = [targ EXCEPT ![t] =
            [bus |-> b, event |-> e, func |-> f, priority |-> p, once |-> once]]
    /\ tpc' = [tpc EXCEPT ![t] = IF Callable(f) THEN "wait" ELSE "TypeError"]
    /\ UNCHANGED <<regVars, emitVars, lock, tmp, th, syncVars>>

\* a plausible slip: on does not take the lock
OnAcquireNoLock(t) ==
    /\ tpc[t] = "wait"
    /\ tpc' = [tpc EXCEPT ![t] = "locked"]
    /\ UNCHANGED <<regVars, emitVars, lock, targ, tmp, th, syncVars>>

\* with self._lock: the thread enters when no other thread holds the lock
OnAcquire(t) ==
    /\ tpc[t] = "wait"
    /\ lock[targ[t].bus] = Free
    /\ lock' = [lock EXCEPT ![targ[t].bus] = <<"on", t>>]
    /\ tpc' = [tpc EXCEPT ![t] = "locked"]
    /\ UNCHANGED <<regVars, emitVars, targ, tmp, th, syncVars>>

\* self._counter += 1: the load of self._counter
OnLoad(t) ==
    /\ tpc[t] = "locked"
    /\ tmp' = [tmp EXCEPT ![t] = counter[targ[t].bus]]
    /\ tpc' = [tpc EXCEPT ![t] = "loaded"]
    /\ UNCHANGED <<regVars, emitVars, lock, targ, th, syncVars>>

\* self._counter += 1: the store of the sum
OnStore(t) ==
    /\ tpc[t] = "loaded"
    /\ counter' = [counter EXCEPT ![targ[t].bus] = tmp[t] + 1]
    /\ tpc' = [tpc EXCEPT ![t] = "stored"]
    /\ UNCHANGED <<buses, handlers, emitVars, lock, targ, tmp, th, syncVars>>

\* h = _Handler(priority=priority, order=self._counter, func=handler, once=once)
OnMake(t) ==
    /\ tpc[t] = "stored"
    /\ th' = [th EXCEPT ![t] =
            Handler(targ[t].priority, counter[targ[t].bus], targ[t].func, targ[t].once)]
    /\ tpc' = [tpc EXCEPT ![t] = "made"]
    /\ UNCHANGED <<regVars, emitVars, lock, targ, tmp, syncVars>>

\* self._handlers.setdefault(event, []).append(h), then the lock is released
OnAppend(t) ==
    /\ tpc[t] = "made"
    /\ handlers' = [handlers EXCEPT ![targ[t].bus] =
            Put(handlers[targ[t].bus], targ[t].event,
                Append(Get(targ[t].bus, targ[t].event), th[t]))]
    /\ lock' = [lock EXCEPT ![targ[t].bus] =
            IF lock[targ[t].bus] = <<"on", t>> THEN Free ELSE lock[targ[t].bus]]
    /\ tpc' = [tpc EXCEPT ![t] = "returned"]
    /\ UNCHANGED <<buses, counter, emitVars, targ, tmp, th, syncVars>>

\* the threads' calls of on alone
NextThreads ==
    \/ \E t \in Threads, b \in buses, e \in Events, f \in Funcs \cup {NotCallable},
          p \in Priorities, once \in BOOLEAN : OnCall(t, b, e, f, p, once)
    \/ \E t \in Threads : OnAcquire(t)
    \/ \E t \in Threads : OnLoad(t)
    \/ \E t \in Threads : OnStore(t)
    \/ \E t \in Threads : OnMake(t)
    \/ \E t \in Threads : OnAppend(t)

SpecThreads == Init /\ [][NextThreads]_vars

\* the threads whose call of on has returned
Returned == {t \in Threads : tpc[t] = "returned"}

\* C14: whatever the interleaving of the threads' calls of on, the bus holds as
\* many records as calls of on have returned, the record of each of them in the
\* list of its event, no two records have the same order number, and the
\* counter is the number of calls that have passed the increment.
C14_ConcurrentRegister ==
    \A b \in buses :
        /\ Cardinality(Places(b)) = Cardinality({t \in Returned : targ[t].bus = b})
        /\ \A t \in Returned : targ[t].bus = b => th[t] \in Range(Get(b, targ[t].event))
        /\ \A p, q \in Places(b) :
                p # q => handlers[b][p[1]][p[2]].order # handlers[b][q[1]][q[2]].order
        /\ counter[b] = Cardinality({t \in Threads :
                tpc[t] \in {"stored", "made", "returned"} /\ targ[t].bus = b})

\* C14: two threads registered for the same event and both calls have returned;
\* thread 2 took the lock first: its record has order number 1, thread 1's has 2
C14_Witness ==
    /\ Returned = Threads
    /\ targ[1].event = targ[2].event
    /\ th[2].order = 1 /\ th[1].order = 2
    /\ Len(Get(targ[1].bus, targ[1].event)) = 2

\* C15: a call of on with a handler that is not callable raises TypeError in its
\* first step, before the lock is taken, and stays failed; that step leaves the
\* dict, the counter and the lock of every bus as they were; no list ever holds
\* a record whose func is not callable.
C15_InvalidHandler ==
    /\ [](\A t \in Threads :
            tpc[t] # "idle" => (tpc[t] = "TypeError" <=> targ[t].func = NotCallable))
    /\ [](\A b \in buses : \A p \in Places(b) : handlers[b][p[1]][p[2]].func \in Funcs)
    /\ [][ \A t \in Threads :
            /\ (tpc[t] # "TypeError" /\ tpc'[t] = "TypeError") =>
                    /\ tpc[t] = "idle"
                    /\ handlers' = handlers /\ counter' = counter /\ lock' = lock
            /\ tpc[t] = "TypeError" => tpc'[t] = "TypeError"
         ]_vars

\* C15: the call of on of thread 1 failed with TypeError; the call of thread 2
\* returned, its record is the only one and has order number 1, the counter is 1
C15_Witness ==
    /\ tpc[1] = "TypeError" /\ targ[1].func = NotCallable
    /\ tpc[2] = "returned" /\ th[2].order = 1
    /\ targ[2].bus = targ[1].bus /\ targ[2].event = targ[1].event
    /\ counter[targ[1].bus] = 1
    /\ Get(targ[1].bus, targ[1].event) = <<th[2]>>

\* ---------------------------------------------------------------- emit and the lock
\* with self._lock: emit enters when no other thread holds the lock
EmitAcquire(d, b, e) ==
    /\ pc[d] = "idle"
    /\ \A k \in Dispatches : k < d => pc[k] # "idle"
    /\ b \in buses
    /\ lock[b] = Free
    /\ lock' = [lock EXCEPT ![b] = <<"emit", d>>]
    /\ pc' = [pc EXCEPT ![d] = "snapshot"]
    /\ dbus' = [dbus EXCEPT ![d] = b]
    /\ devent' = [devent EXCEPT ![d] = e]
    /\ UNCHANGED <<regVars, snap, idx, to_remove, calls, exc, raised, current, pending>>
    /\ UNCHANGED <<tpc, targ, tmp, th, syncVars>>

\* a plausible slip: the callbacks run inside the with block of the snapshot
EmitSnapshotKeepsLock(d) ==
    /\ pc[d] = "snapshot"
    /\ snap' = [snap EXCEPT ![d] = SortHandlers(Snapshot(dbus[d], devent[d]))]
    /\ idx' = [idx EXCEPT ![d] = 1]
    /\ pc' = [pc EXCEPT ![d] = "loop"]
    /\ UNCHANGED <<regVars, dbus, devent, to_remove, calls, exc, raised, current, pending>>
    /\ UNCHANGED <<lockVars, syncVars>>

\* the snapshot is copied, the lock is released, the copy is sorted
EmitSnapshot(d) ==
    /\ pc[d] = "snapshot"
    /\ snap' = [snap EXCEPT ![d] = SortHandlers(Snapshot(dbus[d], devent[d]))]
    /\ idx' = [idx EXCEPT ![d] = 1]
    /\ pc' = [pc EXCEPT ![d] = "loop"]
    /\ lock' = [lock EXCEPT ![dbus[d]] = Free]
    /\ UNCHANGED <<regVars, dbus, devent, to_remove, calls, exc, raised, current, pending>>
    /\ UNCHANGED <<tpc, targ, tmp, th, syncVars>>

\* if to_remove: with self._lock: emit enters when no other thread holds the lock
CleanupAcquire(d) ==
    /\ pc[d] = "loop" /\ idx[d] > Len(snap[d])
    /\ to_remove[d] # <<>>
    /\ lock[dbus[d]] = Free
    /\ lock' = [lock EXCEPT ![dbus[d]] = <<"emit", d>>]
    /\ pc' = [pc EXCEPT ![d] = "cleanup"]
    /\ UNCHANGED <<regVars, dbus, devent, snap, idx, to_remove, calls, exc, raised, current,
                   pending, tpc, targ, tmp, th, syncVars>>

\* the once handlers are dropped from the live list, the lock is released
CleanupRemove(d) ==
    /\ pc[d] = "cleanup"
    /\ current' = [current EXCEPT ![d] = Get(dbus[d], devent[d])]
    /\ handlers' = [handlers EXCEPT ![dbus[d]] =
            Put(handlers[dbus[d]], devent[d],
                RemoveOnce(Get(dbus[d], devent[d]), to_remove[d]))]
    /\ lock' = [lock EXCEPT ![dbus[d]] = Free]
    /\ pc' = [pc EXCEPT ![d] = "done"]
    /\ UNCHANGED <<buses, counter, dbus, devent, snap, idx, to_remove, calls, exc, raised,
                   pending, tpc, targ, tmp, th, syncVars>>

\* if to_remove: nothing to remove, emit returns
EmitReturn(d) ==
    /\ pc[d] = "loop" /\ idx[d] > Len(snap[d])
    /\ to_remove[d] = <<>>
    /\ pc' = [pc EXCEPT ![d] = "done"]
    /\ UNCHANGED <<regVars, dbus, devent, snap, idx, to_remove, calls, exc, raised, current,
                   pending, lockVars, syncVars>>

\* threads in on and emit calls, every step that takes or releases the lock apart
NextLock ==
    \/ \E t \in Threads, b \in buses, e \in Events, f \in Funcs \cup {NotCallable},
          p \in Priorities, once \in BOOLEAN : OnCall(t, b, e, f, p, once)
    \/ \E t \in Threads : OnAcquire(t)
    \/ \E t \in Threads : OnLoad(t)
    \/ \E t \in Threads : OnStore(t)
    \/ \E t \in Threads : OnMake(t)
    \/ \E t \in Threads : OnAppend(t)
    \/ \E d \in Dispatches, b \in buses, e \in Events : EmitAcquire(d, b, e)
    \/ \E d \in Dispatches : EmitSnapshot(d)
    \/ \E d \in Dispatches : CallReturn(d)
    \/ \E d \in Dispatches : CallRaise(d)
    \/ \E d \in Dispatches : CallAwait(d)
    \/ \E d \in Dispatches : AwaitReturn(d)
    \/ \E d \in Dispatches : AwaitRaise(d)
    \/ \E d \in Dispatches : CleanupAcquire(d)
    \/ \E d \in Dispatches : CleanupRemove(d)
    \/ \E d \in Dispatches : EmitReturn(d)

SpecLock == Init /\ [][NextLock]_vars

\* C17: an emit call holds the lock of its bus exactly between entering and
\* leaving the with block of its snapshot and of its cleanup; it holds it at no
\* step that calls a handler and never while a handler is suspended, so the lock
\* is then free or held by a thread inside on, which leaves it after its append.
C17_LockNotHeldInHandlers ==
    /\ [](\A d \in Dispatches : \A b \in buses :
            lock[b] = <<"emit", d>> <=> (pc[d] \in {"snapshot", "cleanup"} /\ dbus[d] = b))
    /\ [](\A t \in Threads : \A b \in buses :
            lock[b] = <<"on", t>> <=>
                (tpc[t] \in {"locked", "loaded", "stored", "made"} /\ targ[t].bus = b))
    /\ [][ \A d \in Dispatches :
            (Len(calls'[d]) > Len(calls[d]) \/ pending'[d] # pending[d]) =>
                /\ lock[dbus[d]] # <<"emit", d>>
                /\ lock'[dbus[d]] # <<"emit", d>> ]_vars

\* C17: a handler of an emit call is suspended; a thread whose call of on came
\* after the snapshot has returned, its record is in the list of the event
C17_Witness ==
    \E d \in Dispatches : \E t \in Threads :
        /\ pc[d] = "await"
        /\ tpc[t] = "returned"
        /\ targ[t].bus = dbus[d] /\ targ[t].event = devent[d]
        /\ th[t].order \notin Orders(snap[d])
        /\ th[t] \in Range(Get(dbus[d], devent[d]))

\* ---------------------------------------------------------------- emit_sync
\* no running loop: asyncio.run(self.emit(...)) starts the coroutine, which
\* takes its snapshot and sorts it
EmitSyncRun(d, b, e) ==
    /\ pc[d] = "idle" /\ smode[d] = "-"
    /\ b \in buses
    /\ smode' = [smode EXCEPT ![d] = "run"]
    /\ pc' = [pc EXCEPT ![d] = "loop"]
    /\ dbus' = [dbus EXCEPT ![d] = b]
    /\ devent' = [devent EXCEPT ![d] = e]
    /\ snap' = [snap EXCEPT ![d] = SortHandlers(Snapshot(b, e))]
    /\ idx' = [idx EXCEPT ![d] = 1]
    /\ UNCHANGED <<regVars, to_remove, calls, exc, raised, current, pending>>
    /\ UNCHANGED <<lockVars, sret, joined, atcall>>

\* a plausible slip: emit_sync returns as soon as the coroutine is suspended
EmitSyncReturnEarly(d) ==
    /\ smode[d] = "run" /\ sret[d] = NoResult
    /\ pc[d] \in {"done", "error", "await"}
    /\ sret' = [sret EXCEPT ![d] = IF pc[d] = "error" THEN exc[d] ELSE ReturnedNone]
    /\ UNCHANGED <<regVars, emitVars, lockVars, smode, joined, atcall>>

\* asyncio.run returns when the coroutine is done, then emit_sync returns None;
\* an exception that left the coroutine leaves asyncio.run and emit_sync
EmitSyncReturn(d) ==
    /\ smode[d] = "run" /\ sret[d] = NoResult
    /\ pc[d] \in {"done", "error"}
    /\ sret' = [sret EXCEPT ![d] = IF pc[d] = "error" THEN exc[d] ELSE ReturnedNone]
    /\ UNCHANGED <<regVars, emitVars, lockVars, smode, joined, atcall>>

\* a plausible slip: the task starts eagerly and runs up to its first await
EmitSyncScheduleEager(d, b, e) ==
    /\ pc[d] = "idle" /\ smode[d] = "-"
    /\ b \in buses
    /\ smode' = [smode EXCEPT ![d] = "task"]
    /\ sret' = [sret EXCEPT ![d] = TaskHandle]
    /\ dbus' = [dbus EXCEPT ![d] = b]
    /\ devent' = [devent EXCEPT ![d] = e]
    /\ LET s == SortHandlers(Snapshot(b, e)) IN
        /\ snap' = [snap EXCEPT ![d] = s]
        /\ idx' = [idx EXCEPT ![d] = 1]
        /\ pc' = [pc EXCEPT ![d] = IF s = <<>> THEN "loop" ELSE "await"]
        /\ calls' = [calls EXCEPT ![d] = IF s = <<>> THEN <<>> ELSE <<s[1]>>]
        /\ pending' = [pending EXCEPT ![d] = IF s = <<>> THEN <<>> ELSE <<s[1]>>]
    /\ atcall' = [atcall EXCEPT ![d] = Get(b, e)]
    /\ UNCHANGED <<regVars, to_remove, exc, raised, current, lockVars, joined>>

\* a loop is running: loop.create_task(self.emit(...)) schedules the coroutine
\* and emit_sync returns the task; the coroutine has not started
EmitSyncSchedule(d, b, e) ==
    /\ pc[d] = "idle" /\ smode[d] = "-"
    /\ b \in buses
    /\ smode' = [smode EXCEPT ![d] = "task"]
    /\ sret' = [sret EXCEPT ![d] = TaskHandle]
    /\ pc' = [pc EXCEPT ![d] = "scheduled"]
    /\ dbus' = [dbus EXCEPT ![d] = b]
    /\ devent' = [devent EXCEPT ![d] = e]
    /\ UNCHANGED <<regVars, snap, idx, to_remove, calls, exc, raised, current, pending>>
    /\ atcall' = [atcall EXCEPT ![d] = Get(b, e)]
    /\ UNCHANGED <<lockVars, joined>>

\* a plausible slip: the task works on the list as emit_sync saw it
TaskStartAtCall(d) ==
    /\ pc[d] = "scheduled"
    /\ pc' = [pc EXCEPT ![d] = "loop"]
    /\ snap' = [snap EXCEPT ![d] = SortHandlers(atcall[d])]
    /\ idx' = [idx EXCEPT ![d] = 1]
    /\ UNCHANGED <<regVars, dbus, devent, to_remove, calls, exc, raised, current, pending>>
    /\ UNCHANGED <<lockVars, syncVars>>

\* the loop runs the task for the first time: emit takes its snapshot and sorts it
TaskStart(d) ==
    /\ pc[d] = "scheduled"
    /\ pc' = [pc EXCEPT ![d] = "loop"]
    /\ snap' = [snap EXCEPT ![d] = SortHandlers(Snapshot(dbus[d], devent[d]))]
    /\ idx' = [idx EXCEPT ![d] = 1]
    /\ UNCHANGED <<regVars, dbus, devent, to_remove, calls, exc, raised, current, pending>>
    /\ UNCHANGED <<lockVars, syncVars>>

\* await task: resumes when the task is done, with its exception if it has one
Join(d) ==
    /\ smode[d] = "task" /\ joined[d] = NoResult
    /\ pc[d] \in {"done", "error"}
    /\ joined' = [joined EXCEPT ![d] = IF pc[d] = "error" THEN exc[d] ELSE JoinedOk]
    /\ UNCHANGED <<regVars, emitVars, lockVars, smode, sret, atcall>>

\* one call of emit_sync, from any registry, with or without a running loop
NextSync ==
    \/ \E b \in buses, e \in Events : EmitSyncRun(1, b, e)
    \/ \E b \in buses, e \in Events : EmitSyncSchedule(1, b, e)
    \/ TaskStart(1)
    \/ CallReturn(1)
    \/ CallRaise(1)
    \/ CallAwait(1)
    \/ AwaitReturn(1)
    \/ AwaitRaise(1)
    \/ Cleanup(1)
    \/ EmitSyncReturn(1)
    \/ Join(1)

SpecSync == InitRegistry /\ [][NextSync]_vars

\* C18: emit_sync without a running loop gives its caller nothing before the
\* emit call has ended: when it returns None the emit call is done, every
\* handler of the snapshot has been called, none is still awaited and none
\* raised; otherwise the emit call failed and the caller gets the exception of
\* the one handler that raised, the last one called.
C18_EmitSyncBlocks ==
    \A d \in Dispatches :
        (smode[d] = "run" /\ sret[d] # NoResult) =>
            IF sret[d] = ReturnedNone
            THEN /\ pc[d] = "done"
                 /\ calls[d] = snap[d]
                 /\ pending[d] = <<>>
                 /\ raised[d] = <<>>
            ELSE /\ pc[d] = "error"
                 /\ Len(raised[d]) = 1
                 /\ sret[d] = ErrorOf(raised[d][1])
                 /\ calls[d][Len(calls[d])] = raised[d][1]

\* C18: emit_sync without a running loop has returned None after an emit call
\* that called three handlers
C18_Witness ==
    \E d \in Dispatches :
        /\ smode[d] = "run" /\ sret[d] = ReturnedNone
        /\ Len(calls[d]) = 3

\* C19: emit_sync with a running loop returns the task in the step that
\* schedules it: that step takes no snapshot, calls no handler and leaves the
\* registry as it is, and no handler is called before the task first runs; when
\* awaiting the task returns, the emit call is done and every handler of its
\* snapshot has been called and has completed; when it raises, the emit call
\* failed with that exception.
C19_EmitSyncSchedules ==
    /\ [][ \A d \in Dispatches :
            (smode[d] = "-" /\ smode'[d] = "task") =>
                /\ sret'[d] = TaskHandle
                /\ pc'[d] = "scheduled"
                /\ calls'[d] = <<>> /\ snap'[d] = <<>> /\ pending'[d] = <<>>
                /\ handlers' = handlers /\ counter' = counter ]_vars
    /\ [](\A d \in Dispatches :
            /\ pc[d] = "scheduled" => (calls[d] = <<>> /\ sret[d] = TaskHandle)
            /\ joined[d] # NoResult =>
                IF joined[d] = JoinedOk
                THEN pc[d] = "done" /\ calls[d] = snap[d] /\ pending[d] = <<>>
                ELSE pc[d] = "error" /\ joined[d] = exc[d])

\* C19: the task emit_sync returned has been awaited and the await returned; the
\* emit call of the task called two handlers
C19_Witness ==
    \E d \in Dispatches :
        /\ smode[d] = "task" /\ sret[d] = TaskHandle
        /\ joined[d] = JoinedOk
        /\ Len(calls[d]) = 2

\* C20: for an event the bus holds no record of, known to the dict or not, off
\* returns 0 for every handler and for None, list_receivers returns the empty
\* list, and an emit call has an empty snapshot: it calls no handler, raises
\* nothing, is done after one step and leaves the dict, keys included, and the
\* counter as they were.
C20_UnknownEvents ==
    /\ [](\A b \in buses : \A e \in Events :
            Get(b, e) = <<>> =>
                /\ \A f \in Funcs \cup {None} : OffResult(b, e, f) = 0
                /\ ListReceivers(b, e) = <<>>)
    /\ [](\A d \in Dispatches :
            (pc[d] # "idle" /\ snap[d] = <<>>) =>
                /\ pc[d] \in {"loop", "done"}
                /\ calls[d] = <<>> /\ raised[d] = <<>> /\ exc[d] = None)
    /\ [][ \A d \in Dispatches :
            /\ (IsSnapshot(d) /\ Get(dbus'[d], devent'[d]) = <<>>) =>
                    (snap'[d] = <<>> /\ handlers' = handlers /\ counter' = counter)
            /\ (pc[d] = "loop" /\ snap[d] = <<>>) =>
                    (pc'[d] = "done" /\ handlers' = handlers /\ counter' = counter)
         ]_vars

\* C20: an emit call of an event that is no key of the dict is done and has
\* called nothing; the bus holds records of another event
C20_Witness ==
    \E d \in Dispatches :
        /\ pc[d] = "done"
        /\ devent[d] \notin DOMAIN handlers[dbus[d]]
        /\ snap[d] = <<>> /\ calls[d] = <<>>
        /\ \E e \in DOMAIN handlers[dbus[d]] : Len(handlers[dbus[d]][e]) = 2

\* ---------------------------------------------------------------- receiver
\* a plausible slip: the bus argument is ignored
GetBusDefaultOnly(bus) == DefaultBus

\* core._get_bus: bus or _default_bus
GetBus(bus) == IF bus = None THEN DefaultBus ELSE bus

\* receiver(event, priority=, once=, bus=)(func): wrapper calls on of the bus
Receiver(bus, e, f, p, once) == On(GetBus(bus), e, f, p, once)

\* wrapper(func): return func
ReceiverResult(f) == f

\* buses are made and callbacks are decorated
NextDecorator ==
    \/ NewBus(OtherBus)
    \/ \E bus \in buses \cup {None}, e \in Events, f \in Funcs, p \in Priorities,
          once \in BOOLEAN : Receiver(bus, e, f, p, once)

SpecDecorator == Init /\ [][NextDecorator]_vars

\* C21: decorating a callback for a bus, or for no bus, appends one record with
\* the next order number of that bus, or of the default bus, and the event,
\* priority, once flag and callback given, to the list of the event there; the
\* other events of that bus and every other bus stay as they were; the
\* decorator returns the callback it was given.
C21_DecoratorIsOn ==
    /\ [](\A f \in Funcs : ReceiverResult(f) = f)
    /\ [][ \A bus \in buses \cup {None} : \A e \in Events : \A f \in Funcs :
           \A p \in Priorities : \A once \in BOOLEAN :
            Receiver(bus, e, f, p, once) =>
                LET b == IF bus = None THEN DefaultBus ELSE bus IN
                    /\ GetNext(b, e) = Append(Get(b, e), Handler(p, counter[b] + 1, f, once))
                    /\ counter'[b] = counter[b] + 1
                    /\ \A e2 \in Events \ {e} : GetNext(b, e2) = Get(b, e2)
                    /\ \A a \in buses \ {b} :
                            handlers'[a] = handlers[a] /\ counter'[a] = counter[a]
         ]_vars

\* C21: two callbacks were decorated for the second bus and one for the default
\* bus, which holds one record, with order number 1
C21_Witness ==
    /\ buses = {DefaultBus, OtherBus}
    /\ counter[OtherBus] = 2 /\ counter[DefaultBus] = 1
    /\ Cardinality(Places(OtherBus)) = 2
    /\ Cardinality(Places(DefaultBus)) = 1

\* --------------------------------------------- the window before the task runs
\* emit_sync under a running loop, with on, off and clear calls at any moment,
\* the moments between create_task and the first run of the task included
NextTask ==
    \/ \E b \in buses, e \in Events, f \in Funcs, p \in Priorities, once \in BOOLEAN :
            On(b, e, f, p, once)
    \/ \E b \in buses, e \in Events, f \in Funcs \cup {None} : Off(b, e, f)
    \/ \E b \in buses : Clear(b)
    \/ \E b \in buses, e \in Events : EmitSyncSchedule(1, b, e)
    \/ TaskStart(1)
    \/ CallReturn(1)
    \/ CallRaise(1)
    \/ CallAwait(1)
    \/ AwaitReturn(1)
    \/ AwaitRaise(1)
    \/ Cleanup(1)
    \/ Join(1)

SpecTask == Init /\ [][NextTask]_vars

\* C26: with a running loop, the snapshot of the scheduled emit call is the list
\* of the event at the step in which the task first runs, whatever the list was
\* when emit_sync was called: while the task is scheduled and has not run there
\* is no snapshot; only records of that snapshot are called, and when the emit
\* call is done all of them have been called.
C26_SnapshotAtTaskStart ==
    /\ [][ \A d \in Dispatches :
            (pc[d] = "scheduled" /\ pc'[d] # "scheduled") =>
                /\ Range(snap'[d]) = Range(Get(dbus[d], devent[d]))
                /\ Len(snap'[d]) = Len(Get(dbus[d], devent[d]))
                /\ handlers' = handlers ]_vars
    /\ [](\A d \in Dispatches :
            /\ pc[d] = "scheduled" => (snap[d] = <<>> /\ calls[d] = <<>>)
            /\ smode[d] = "task" =>
                /\ Range(calls[d]) \subseteq Range(snap[d])
                /\ pc[d] = "done" => calls[d] = snap[d])

\* C26: the emit call of a task is done; it called a record that was registered
\* after emit_sync returned, and did not call a record that emit_sync found in
\* the list and that was unregistered before the task ran
C26_Witness ==
    \E d \in Dispatches :
        /\ smode[d] = "task" /\ pc[d] = "done"
        /\ \E y \in Range(calls[d]) : y.order \notin Orders(atcall[d])
        /\ \E x \in Range(atcall[d]) : x.order \notin Orders(calls[d])

\* C25: in every state the records of each event of each bus are stored in
\* ascending order number, whatever their priorities, and no order number
\* appears twice; list_receivers gives one callback per record, the i-th
\* callback being that of the i-th stored record.
C25_StoredInRegistrationOrder ==
    \A b \in buses : \A e \in Events :
        LET lst == Get(b, e) IN
            /\ \A i, j \in 1..Len(lst) : i < j => lst[i].order < lst[j].order
            /\ Len(ListReceivers(b, e)) = Len(lst)
            /\ \A i \in 1..Len(lst) : ListReceivers(b, e)[i] = lst[i].func

\* C25: an emit call is done that called the second record of the event before
\* the first, whose priority is lower; the list still holds both, the first
\* registered first, and list_receivers names their one callback twice
C25_Witness ==
    \E d \in Dispatches :
        LET lst == Get(dbus[d], devent[d]) IN
            /\ pc[d] = "done"
            /\ Len(lst) = 2 /\ Len(calls[d]) = 2
            /\ lst[1].priority < lst[2].priority
            /\ calls[d][1] = lst[2]
            /\ lst[1].func = lst[2].func
            /\ ListReceivers(dbus[d], devent[d]) = <<lst[1].func, lst[1].func>>

\* C22: an emit call changes the registry in its cleanup step only, and that
\* step comes when every handler of the snapshot has been called and none is
\* still awaited: a step in which the call invokes a handler, or resumes from
\* one, leaves every list as it was, a once record just called included; and
\* an emit call that starts takes every record the list holds then, the once
\* records other calls have already invoked included.
C22_OnceRemovedInCleanupOnly ==
    [][ \A d \in Dispatches :
            /\ ((calls'[d] # calls[d] \/ idx'[d] # idx[d]) /\ pc[d] # "idle") =>
                    /\ handlers' = handlers
                    /\ \A x \in Range(calls'[d]) :
                            x \in Range(Get(dbus[d], devent[d])) =>
                                x \in Range(GetNext(dbus[d], devent[d]))
            /\ IsCleanup(d) =>
                    /\ calls[d] = snap[d]
                    /\ pending[d] = <<>>
                    /\ idx[d] = Len(snap[d]) + 1
            /\ IsSnapshot(d) =>
                    /\ Range(snap'[d]) = Range(Get(dbus'[d], devent'[d]))
                    /\ handlers' = handlers
      ]_vars

\* C22: the first emit call has called a once record and awaits its second
\* handler; the once record is still in the list, list_receivers names its
\* callback, and the second emit call has it in its snapshot
C22_Witness ==
    /\ pc[1] = "await" /\ idx[1] = 2
    /\ snap[1][1].once
    /\ calls[1] = snap[1]
    /\ snap[1][1] \in Range(Get(dbus[1], devent[1]))
    /\ \E i \in 1..Len(ListReceivers(dbus[1], devent[1])) :
            ListReceivers(dbus[1], devent[1])[i] = snap[1][1].func
    /\ pc[2] # "idle"
    /\ dbus[2] = dbus[1] /\ devent[2] = devent[1]
    /\ snap[1][1] \in Range(snap[2])

\* the steps of emit call d: its snapshot, its handler calls, its cleanup
IsEmitStep(d) ==
    \/ pc'[d] # pc[d]
    \/ idx'[d] # idx[d]
    \/ calls'[d] # calls[d]

\* C24: a step of an emit call of event E never changes the counter of any bus,
\* the set of buses, or the list of any other event or bus; the list of E is
\* changed by the cleanup step only, and there every record of the new list was
\* in the old one, in the same relative order, and every record that is gone
\* is a once record of the call's own snapshot; a call whose snapshot holds no
\* once record leaves the whole registry as it was.
C24_EmitFrame ==
    [][ \A d \in Dispatches :
            IsEmitStep(d) =>
                LET b == dbus'[d]
                    e == devent'[d]
                    old == Get(b, e)
                    new == GetNext(b, e)
                IN  /\ counter' = counter
                    /\ buses' = buses
                    /\ \A a \in buses : \A e2 \in Events :
                            (a # b \/ e2 # e) => GetNext(a, e2) = Get(a, e2)
                    /\ ~ IsCleanup(d) => handlers' = handlers
                    /\ Range(new) \subseteq Range(old)
                    /\ LET Kept(x) == x \in Range(new) IN new = SelectSeq(old, Kept)
                    /\ \A x \in Range(old) \ Range(new) : x.once /\ x \in Range(snap[d])
                    /\ (\A i \in 1..Len(snap'[d]) : ~ snap'[d][i].once) => handlers' = handlers
      ]_vars

\* C24: an emit call with a once record is done and its cleanup changed the
\* list; a record of its snapshot that was unregistered while it ran was not in
\* the list at the cleanup and is not in the list now
C24_Witness ==
    \E d \in Dispatches :
        /\ pc[d] = "done" /\ to_remove[d] # <<>>
        /\ \E x \in Range(snap[d]) :
            /\ ~ x.once
            /\ x \notin Range(current[d])
            /\ x \notin Range(Get(dbus[d], devent[d]))

\* ------------------------------------------------- handlers that do not fail
\* every call of the bus, with handlers that return or are awaited and complete
NextNoFail ==
    \/ \E b \in buses, e \in Events, f \in Funcs, p \in Priorities, once \in BOOLEAN :
            On(b, e, f, p, once)
    \/ \E b \in buses, e \in Events, f \in Funcs \cup {None} : Off(b, e, f)
    \/ \E b \in buses : Clear(b)
    \/ \E d \in Dispatches, b \in buses, e \in Events : EmitStart(d, b, e)
    \/ \E d \in Dispatches : CallReturn(d)
    \/ \E d \in Dispatches : CallAwait(d)
    \/ \E d \in Dispatches : AwaitReturn(d)
    \/ \E d \in Dispatches : Cleanup(d)

\* the thread or loop that runs an emit call keeps running it: the next handler
\* is called, and it returns or is awaited and completes, and after the last
\* one the cleanup is done; nothing requires any other call to happen
Fairness ==
    \A d \in Dispatches :
        /\ WF_vars(CallReturn(d) \/ CallAwait(d))
        /\ WF_vars(AwaitReturn(d))
        /\ WF_vars(Cleanup(d))

SpecFair == Init /\ [][NextNoFail]_vars /\ Fairness

\* C23: when no handler fails and every awaited handler completes, an emit call
\* that has started is eventually done, whatever on, off, clear and emit calls
\* happen meanwhile; and when it is done every handler of its snapshot has been
\* called and none is still awaited.
C23_EmitTerminates ==
    /\ \A d \in Dispatches : (pc[d] # "idle") ~> (pc[d] = "done")
    /\ [](\A d \in Dispatches :
            pc[d] = "done" => (calls[d] = snap[d] /\ pending[d] = <<>>))

\* C23: two emit calls are done, the first after two handlers, the second
\* after one; a record of the first snapshot was unregistered meanwhile
C23_Witness ==
    /\ pc[1] = "done" /\ pc[2] = "done"
    /\ Len(calls[1]) = 2 /\ Len(calls[2]) = 1
    /\ \E x \in Range(snap[1]) : ~ x.once /\ x \notin Range(Get(dbus[1], devent[1]))

====
